---- MODULE Spec2Model ----
(***************************************************************************)
(* State-machine model of the two controller modules of video_social:      *)
(*   src/controllers/userController.js   (accounts, login, token refresh)  *)
(*   src/controllers/comentController.js (comments on videos)              *)
(* The document store behind the ORM is modelled as plain collections:     *)
(* the controllers are the only code in these sources that guards them.    *)
(*                                                                         *)
(* Three facts of the environment are not fixed by the sources and are     *)
(* chosen in the initial state, each way:                                  *)
(*   jwtBound         userController.js calls jwt.verify but imports no    *)
(*                    jwt; the call works only if the host binds the name, *)
(*                    otherwise it throws a ReferenceError.                *)
(*   likeBound        comentController.js calls Like.deleteMany but        *)
(*                    imports no Like, likewise.                           *)
(*   stripsUndefined  an update { $set: { f: undefined } } is either       *)
(*                    stripped of the undefined key by the ORM (an empty   *)
(*                    update) or written as an absent value, depending on  *)
(*                    the ORM's major version.                             *)
(***************************************************************************)
EXTENDS Integers, Sequences, FiniteSets, TLC

VARIABLES
    users,            \* the users collection: a sequence, _id = position
    serial,           \* number of token pairs signed so far
    issued,           \* refresh tokens that were handed to a client
    exchanges,        \* refresh tokens exchanged successfully, in order
    slot,             \* refreshAccessToken requests in flight
    resp,             \* the HTTP response sent by the last step (user side)
    jwtBound,         \* does the identifier `jwt` resolve in userController.js
    stripsUndefined,  \* does the ORM drop undefined keys of an update
    comments,         \* the comments collection
    likes,            \* the likes collection
    nextCid,          \* next comment _id
    cres,             \* the HTTP response sent by the last step (comment side)
    likeBound         \* does the identifier `Like` resolve in comentController.js

userVars == <<users, serial, issued, exchanges, slot, resp, jwtBound, stripsUndefined>>
commentVars == <<comments, likes, nextCid, cres, likeBound>>
vars == <<users, serial, issued, exchanges, slot, resp, jwtBound, stripsUndefined,
          comments, likes, nextCid, cres, likeBound>>

----------------------------------------------------------------------------
(* Bounds of the model *)

MaxUsers == 2        \* stored user accounts
MaxSerial == 3       \* token pairs signed in one run
MaxReq == 2          \* refresh requests in flight at once
MaxComments == 2     \* comments ever created

----------------------------------------------------------------------------
(* JavaScript values *)

Undefined == "<undefined>"

\* !x for a string-or-undefined value
Falsy(x) == x = Undefined \/ x = ""

\* String.prototype.trim on the inputs used here
Trim(s) == IF s = " " THEN "" ELSE s

\* String.prototype.toLowerCase on the inputs used here
ToLowerCase(s) == IF s = "Bob" THEN "bob" ELSE s

----------------------------------------------------------------------------
(* Tokens.  A signed token carries the user's _id; `serial` makes each     *)
(* generated pair distinct.  The other kinds are what a cookie, a request  *)
(* or a stored field can hold instead of a signed refresh token.           *)

Token(kind, uid, n) == [kind |-> kind, uid |-> uid, serial |-> n]

AbsentToken == Token("absent", 0, 0)        \* no cookie and no body field
ForgedToken == Token("forged", 0, 0)        \* not signed with the refresh secret
GhostToken == Token("refresh", 0, 0)        \* signed, for an _id that is not stored
UndefinedToken == Token("undefined", 0, 0)  \* the JS value undefined
UnsetToken == Token("unset", 0, 0)          \* stored field never set or cleared
NotSent == Token("notsent", 0, 0)           \* response carries no such cookie/field
ClearedCookie == Token("cleared", 0, 0)     \* res.clearCookie

\* user.generateAccessToken(), user.generateRefreshToken()
generateAccessToken(uid, n) == Token("access", uid, n)
generateRefreshToken(uid, n) == Token("refresh", uid, n)

\* jwt.verify(token, REFRESH_TOKEN_SECRET) returns (does not throw)
Verifies(tok) == tok.kind = "refresh"

\* incomingRefreshToken != user?.refreshToken
\* faulty variant: the comparison with the stored token dropped
StoredTokenMismatchBroken(tok, user) == FALSE
StoredTokenMismatch(tok, user) == tok # user.refreshToken

\* const { <name> } = <record>: a field the record lacks reads undefined
Destructure(rec, name) == IF name \in DOMAIN rec THEN rec[name] ELSE UndefinedToken

----------------------------------------------------------------------------
(* Responses *)

NoReq == [username |-> Undefined, email |-> Undefined, password |-> Undefined,
          files |-> Undefined]

Response(op, status, message, uid, req, token, cAT, cRT, dAT, dRT) ==
    [op |-> op, status |-> status, message |-> message, uid |-> uid, req |-> req,
     token |-> token, cookieAT |-> cAT, cookieRT |-> cRT, dataAT |-> dAT, dataRT |-> dRT]

\* throw new ApiError(status, message): no cookie, no data
ApiError(op, status, message, req, token) ==
    Response(op, status, message, 0, req, token, NotSent, NotSent, NotSent, NotSent)

NoResponse == ApiError("none", 0, "", NoReq, AbsentToken)

----------------------------------------------------------------------------
(* The users collection *)

UserIds == 1..Len(users)

\* User.findOne({ $or: [{ username }, { email }] }): first match, 0 if none
FindOneMatches(username, email) ==
    {i \in UserIds : users[i].username = username \/ users[i].email = email}

FindOne(username, email) ==
    LET m == FindOneMatches(username, email)
    IN IF m = {} THEN 0 ELSE CHOOSE i \in m : \A j \in m : i <= j

\* user.isPasswordCorrect(password)
isPasswordCorrect(user, password) == user.password = password

\* faulty variant: the promise tested instead of its value, never rejects
InvalidPasswordBroken(user, password) == FALSE
\* const isPasswordvalid = await user.isPasswordCorrect(password); !isPasswordvalid
InvalidPassword(user, password) == ~isPasswordCorrect(user, password)

\* generateAccessAndRefreshTokens(userId): the pair returned
TokenPair(uid) ==
    [accessToken |-> generateAccessToken(uid, serial + 1),
     refreshToken |-> generateRefreshToken(uid, serial + 1)]

\* generateAccessAndRefreshTokens(userId): user.refreshToken = refreshToken; user.save()
SaveRefreshToken(uid) ==
    /\ users' = [users EXCEPT ![uid].refreshToken = TokenPair(uid).refreshToken]
    /\ serial' = serial + 1

----------------------------------------------------------------------------
(* registerUser *)

FullNames == {"Full"}
Emails == {"e1", "e2"}
RegUsernames == {Undefined, " ", "bob", "Bob", "amy"}
Passwords == {"pw"}
Files == {"none", "avatarOnly", "both"}

\* [fullName, email, username, password].some((field) => field?.trim() === "")
SomeFieldEmpty(fields) ==
    \E i \in DOMAIN fields : fields[i] # Undefined /\ Trim(fields[i]) = ""

registerUser(fullName, email, username, password, files) ==
    LET req == [username |-> username, email |-> email, password |-> password,
                files |-> files]
        fail(status, message) ==
            /\ resp' = ApiError("register", status, message, req, AbsentToken)
            /\ UNCHANGED users
    IN
    /\ IF SomeFieldEmpty(<<fullName, email, username, password>>)
         THEN fail(400, "All fields are required")
       ELSE IF FindOne(username, email) # 0
         THEN fail(409, "User already exists")
       ELSE IF files = "none"
         THEN fail(400, "Avatar file is required")
       ELSE IF files = "avatarOnly"
         \* req.files?.coverImage[0] with no coverImage: TypeError
         THEN fail(500, "TypeError")
       ELSE IF username = Undefined
         \* username.toLowerCase(): TypeError
         THEN fail(500, "TypeError")
       ELSE
         /\ Len(users) < MaxUsers
         /\ users' = Append(users, [username |-> ToLowerCase(username),
                                    email |-> email,
                                    password |-> password,
                                    refreshToken |-> UnsetToken])
         /\ resp' = Response("register", 201, "User Registered Successfully",
                             Len(users) + 1, req, AbsentToken,
                             NotSent, NotSent, NotSent, NotSent)
    /\ UNCHANGED <<serial, issued, exchanges, slot, jwtBound, stripsUndefined>>
    /\ UNCHANGED commentVars

----------------------------------------------------------------------------
(* loginUser *)

LoginUsernames == {Undefined, "bob", "Bob", "amy"}
LoginEmails == {Undefined, "e1", "e2"}
LoginPasswords == {"pw", "bad"}

loginUser(email, username, password) ==
    LET req == [username |-> username, email |-> email, password |-> password,
                files |-> Undefined]
        uid == FindOne(username, email)
        pair == TokenPair(uid)
        fail(status, message) ==
            /\ resp' = ApiError("login", status, message, req, AbsentToken)
            /\ UNCHANGED <<users, serial, issued>>
    IN
    /\ IF Falsy(username) /\ Falsy(email)
         THEN fail(400, "Username or email is required")
       ELSE IF uid = 0
         THEN fail(404, "User not found")
       ELSE IF InvalidPassword(users[uid], password)
         THEN fail(401, "Invalid password")
       ELSE
         /\ serial < MaxSerial
         /\ SaveRefreshToken(uid)
         /\ issued' = issued \cup {pair.refreshToken}
         /\ resp' = Response("login", 200, "User Logged In Successfully", uid, req,
                             AbsentToken,
                             pair.accessToken, pair.refreshToken,
                             pair.accessToken, pair.refreshToken)
    /\ UNCHANGED <<exchanges, slot, jwtBound, stripsUndefined>>
    /\ UNCHANGED commentVars

----------------------------------------------------------------------------
(* logoutUser *)

\* User.findByIdAndUpdate(id, { $set: { refreshToken: undefined } }): the ORM
\* either drops the undefined key (the update is empty) or stores no value
ClearRefreshToken(uid) ==
    IF stripsUndefined
      THEN users
      ELSE [users EXCEPT ![uid].refreshToken = UnsetToken]

logoutUser(uid) ==
    /\ uid \in UserIds
    /\ users' = ClearRefreshToken(uid)
    /\ resp' = Response("logout", 200, "User Logged Out Successfully", uid, NoReq,
                        AbsentToken, ClearedCookie, ClearedCookie, NotSent, NotSent)
    /\ UNCHANGED <<serial, issued, exchanges, slot, jwtBound, stripsUndefined>>
    /\ UNCHANGED commentVars

----------------------------------------------------------------------------
(* refreshAccessToken, in two steps: the checks up to the comparison with  *)
(* the stored token (one database read), then the reissue (one write).     *)

Slots == 1..MaxReq
IdleSlot == [pc |-> "idle", token |-> AbsentToken]
NoPending == \A r \in Slots : slot[r].pc = "idle"

\* tokens a client can present
Presentable == {AbsentToken, ForgedToken, GhostToken} \cup issued

\* lines 136-151
refreshCheck(r, tok) ==
    LET fail(message) ==
            /\ resp' = ApiError("refresh", 401, message, NoReq, tok)
            /\ UNCHANGED slot
    IN
    /\ slot[r].pc = "idle"
    /\ IF tok.kind = "absent"
         THEN fail("Unauthorized request")
       ELSE IF ~jwtBound
         THEN fail("jwt is not defined")
       ELSE IF ~Verifies(tok)
         THEN fail("invalid signature")
       ELSE IF tok.uid \notin UserIds
         THEN fail("Invalid refresh token")
       ELSE IF StoredTokenMismatch(tok, users[tok.uid])
         THEN fail("Refresh token is expired or used")
       ELSE
         /\ serial < MaxSerial
         /\ slot' = [slot EXCEPT ![r] = [pc |-> "issuing", token |-> tok]]
         /\ resp' = NoResponse
    /\ UNCHANGED <<users, serial, issued, exchanges, jwtBound, stripsUndefined>>
    /\ UNCHANGED commentVars

\* lines 153-169
refreshIssue(r) ==
    LET tok == slot[r].token
        pair == TokenPair(tok.uid)
        accessToken == Destructure(pair, "accessToken")
        newRefreshToken == Destructure(pair, "newRefreshToken")
    IN
    /\ slot[r].pc = "issuing"
    /\ serial < MaxSerial
    /\ SaveRefreshToken(tok.uid)
    /\ slot' = [slot EXCEPT ![r] = IdleSlot]
    /\ exchanges' = Append(exchanges, tok)
    /\ issued' = issued \cup ({newRefreshToken} \cap {generateRefreshToken(tok.uid, serial + 1)})
    /\ resp' = Response("refresh", 200, "Access token refreshed successfully",
                        tok.uid, NoReq, tok,
                        accessToken, newRefreshToken, accessToken, newRefreshToken)
    /\ UNCHANGED <<jwtBound, stripsUndefined>>
    /\ UNCHANGED commentVars

----------------------------------------------------------------------------
(* Specifications of the user controller *)

InitUser ==
    /\ users = <<>>
    /\ serial = 0
    /\ issued = {}
    /\ exchanges = <<>>
    /\ slot = [r \in Slots |-> IdleSlot]
    /\ resp = NoResponse
    /\ jwtBound \in BOOLEAN
    /\ stripsUndefined \in BOOLEAN
    /\ comments = {}
    /\ likes = {}
    /\ nextCid = 1
    /\ cres = [op |-> "none", status |-> 0, message |-> "", user |-> 0,
               id |-> [type |-> "string", id |-> 0], content |-> Undefined,
               page |-> Undefined, limit |-> Undefined, docs |-> <<>>]
    /\ likeBound = FALSE

Register ==
    \E fullName \in FullNames, email \in Emails, username \in RegUsernames,
       password \in Passwords, files \in Files :
        registerUser(fullName, email, username, password, files)

Login ==
    \E email \in LoginEmails, username \in LoginUsernames, password \in LoginPasswords :
        loginUser(email, username, password)

Logout == \E uid \in 1..MaxUsers : logoutUser(uid)

RefreshCheck == \E r \in Slots, tok \in Presentable : refreshCheck(r, tok)

RefreshIssue == \E r \in Slots : refreshIssue(r)

\* every request is handled to its response before the next one is taken up
Next ==
    \/ NoPending /\ Register
    \/ NoPending /\ Login
    \/ NoPending /\ Logout
    \/ NoPending /\ RefreshCheck
    \/ RefreshIssue

Spec == InitUser /\ [][Next]_vars

\* requests are handled concurrently: refresh requests interleave at their awaits
NextInterleaved ==
    \/ Register
    \/ Login
    \/ Logout
    \/ RefreshCheck
    \/ RefreshIssue

SpecInterleaved == InitUser /\ [][NextInterleaved]_vars

----------------------------------------------------------------------------
(* Identifiers.  The store holds ObjectIds; a route parameter is a string. *)
(* Queries and documents are cast by the ORM; aggregation stages are sent  *)
(* to the database as written.                                             *)

ObjectId(n) == [type |-> "ObjectId", id |-> n]
StringId(n) == [type |-> "string", id |-> n]

\* the ORM's cast of a query or document value to the ObjectId of the path
CastObjectId(x) == ObjectId(x.id)

\* ObjectId.prototype.toString
IdToString(x) == StringId(x.id)

NumAccounts == 2                          \* authenticated requesters
Requesters == 1..NumAccounts
NumVideos == 1                            \* stored videos
Videos == {ObjectId(v) : v \in 1..NumVideos}
VideoParams == {StringId(v) : v \in 1..(NumVideos + 1)}
CommentParams == {StringId(c) : c \in 1..MaxComments}
Contents == {Undefined, "", "a", "b"}

\* req.user as set by the authentication middleware
ReqUser(u) == [_id |-> ObjectId(u)]

\* Video.findById(videoId)
VideoFindById(videoId) == CastObjectId(videoId) \in Videos

\* Comment.findById(commentId): the matching documents (at most one)
CommentFindById(commentId) == {c \in comments : c._id = CastObjectId(commentId)}

\* comment?.owner.toString() !== req.user?._id.toString()
\* faulty variant: the comparison inverted
NotOwnerBroken(comment, user) == IdToString(comment.owner) = IdToString(user._id)
NotOwner(comment, user) == IdToString(comment.owner) # IdToString(user._id)

\* !content
\* faulty variant: only an absent field tested, the empty string let through
ContentMissingBroken(content) == content = Undefined
ContentMissing(content) == Falsy(content)

CommentResponse(op, status, message, u, id, content, docs) ==
    [op |-> op, status |-> status, message |-> message, user |-> u, id |-> id,
     content |-> content, page |-> Undefined, limit |-> Undefined, docs |-> docs]

\* the response of getVideoComments, with the query it answers
ListResponse(status, message, u, id, page, limit, docs) ==
    [op |-> "list", status |-> status, message |-> message, user |-> u, id |-> id,
     content |-> Undefined, page |-> page, limit |-> limit, docs |-> docs]

NoCommentResponse == CommentResponse("none", 0, "", 0, StringId(0), Undefined, <<>>)

----------------------------------------------------------------------------
(* getVideoComments *)

DefaultPage == 1
DefaultLimit == 10
PageParams == {Undefined, "2"}
LimitParams == {Undefined, "1"}

\* parseInt(s, 10) on the inputs used here
ParseInt(s) == IF s = "1" THEN 1 ELSE IF s = "2" THEN 2 ELSE 10

\* const { page = 1, limit = 10 } = req.query; parseInt(page, 10)
PageOption(page) == IF page = Undefined THEN DefaultPage ELSE ParseInt(page)
LimitOption(limit) == IF limit = Undefined THEN DefaultLimit ELSE ParseInt(limit)

\* $match: { video: videoId }
MatchVideo(videoId) == {c \in comments : c.video = videoId}

\* $lookup from likes, localField _id, foreignField comment
LookupLikes(c) == {l \in likes : l.comment = c._id}

\* $addFields and $project: the document returned for a comment
ProjectComment(c, user) ==
    [_id |-> c._id,
     content |-> c.content,
     createdAt |-> c.createdAt,
     owner |-> c.owner,
     likesCount |-> Cardinality(LookupLikes(c)),
     isLiked |-> user._id \in {l.likedBy : l \in LookupLikes(c)}]

\* $sort: { createdAt: -1 }
RECURSIVE SortNewestFirst(_)
SortNewestFirst(S) ==
    IF S = {} THEN <<>>
    ELSE LET c == CHOOSE x \in S : \A y \in S : y.createdAt <= x.createdAt
         IN <<c>> \o SortNewestFirst(S \ {c})

\* Comment.aggregatePaginate(aggregate, { page, limit }): the docs of the page
Paginate(docs, page, limit) ==
    LET first == (page - 1) * limit + 1
        last == IF page * limit < Len(docs) THEN page * limit ELSE Len(docs)
    IN SubSeq(docs, first, last)

Pipeline(videoId, user) ==
    LET sorted == SortNewestFirst(MatchVideo(videoId))
    IN [i \in 1..Len(sorted) |-> ProjectComment(sorted[i], user)]

getVideoComments(u, videoId, page, limit) ==
    /\ IF ~VideoFindById(videoId)
         THEN cres' = ListResponse(404, "Video not found", u, videoId, page, limit,
                                   <<>>)
         ELSE cres' = ListResponse(200, "Comments fetched successfully",
                          u, videoId, page, limit,
                          Paginate(Pipeline(videoId, ReqUser(u)),
                                   PageOption(page), LimitOption(limit)))
    /\ UNCHANGED <<comments, likes, nextCid, likeBound>>
    /\ UNCHANGED userVars

----------------------------------------------------------------------------
(* addComment *)

addComment(u, videoId, content) ==
    LET fail(status, message) ==
            /\ cres' = CommentResponse("add", status, message, u, videoId, content, <<>>)
            /\ UNCHANGED <<comments, nextCid>>
    IN
    /\ IF ContentMissing(content)
         THEN fail(400, "Content is required")
       ELSE IF ~VideoFindById(videoId)
         THEN fail(404, "Video not found")
       ELSE
         /\ nextCid <= MaxComments
         /\ comments' = comments \cup
                {[_id |-> ObjectId(nextCid),
                  content |-> content,
                  video |-> CastObjectId(videoId),
                  owner |-> ReqUser(u)._id,
                  createdAt |-> nextCid]}
         /\ nextCid' = nextCid + 1
         /\ cres' = CommentResponse("add", 201, "Comment added successfully", u,
                                    videoId, content, <<>>)
    /\ UNCHANGED <<likes, likeBound>>
    /\ UNCHANGED userVars

----------------------------------------------------------------------------
(* updateComment *)

updateComment(u, commentId, content) ==
    LET found == CommentFindById(commentId)
        comment == CHOOSE c \in found : TRUE
        fail(status, message) ==
            /\ cres' = CommentResponse("update", status, message, u, commentId,
                                       content, <<>>)
            /\ UNCHANGED comments
    IN
    /\ IF ContentMissing(content)
         THEN fail(400, "content is required")
       ELSE IF found = {}
         THEN fail(404, "Comment not found")
       ELSE IF NotOwner(comment, ReqUser(u))
         THEN fail(400, "only comment owner can edit their comment")
       ELSE
         /\ comments' = (comments \ {comment}) \cup
                            {[comment EXCEPT !.content = content]}
         /\ cres' = CommentResponse("update", 200, "Comment edited successfully", u,
                                    commentId, content, <<>>)
    /\ UNCHANGED <<likes, nextCid, likeBound>>
    /\ UNCHANGED userVars

----------------------------------------------------------------------------
(* deleteComment *)

\* Like.deleteMany({ comment: commentId, likedBy: req.user }) inside try/catch:
\* with `Like` unresolved the call throws a ReferenceError, which is caught
DeleteLikes(commentId, user) ==
    IF likeBound
      THEN {l \in likes : ~(l.comment = CastObjectId(commentId)
                            /\ l.likedBy = CastObjectId(user._id))}
      ELSE likes

deleteComment(u, commentId) ==
    LET found == CommentFindById(commentId)
        comment == CHOOSE c \in found : TRUE
        fail(status, message) ==
            /\ cres' = CommentResponse("delete", status, message, u, commentId,
                                       Undefined, <<>>)
            /\ UNCHANGED <<comments, likes>>
    IN
    /\ IF found = {}
         THEN fail(404, "Comment not found")
       ELSE IF NotOwner(comment, ReqUser(u))
         THEN fail(400, "only comment owner can delete their comment")
       ELSE
         /\ comments' = comments \ found
         /\ likes' = DeleteLikes(commentId, ReqUser(u))
         /\ cres' = CommentResponse("delete", 200, "Comment deleted successfully", u,
                                    commentId, Undefined, <<>>)
    /\ UNCHANGED <<nextCid, likeBound>>
    /\ UNCHANGED userVars

----------------------------------------------------------------------------
(* The like endpoint of the platform (another controller): a user likes a  *)
(* stored comment, or takes the like back.                                 *)

toggleCommentLike(u, commentId) ==
    LET like == [comment |-> CastObjectId(commentId), likedBy |-> ReqUser(u)._id]
    IN
    /\ CommentFindById(commentId) # {}
    /\ likes' = IF like \in likes THEN likes \ {like} ELSE likes \cup {like}
    /\ cres' = NoCommentResponse
    /\ UNCHANGED <<comments, nextCid, likeBound>>
    /\ UNCHANGED userVars

----------------------------------------------------------------------------
(* Specification of the comment controller *)

InitComment ==
    /\ users = <<>>
    /\ serial = 0
    /\ issued = {}
    /\ exchanges = <<>>
    /\ slot = [r \in Slots |-> IdleSlot]
    /\ resp = NoResponse
    /\ jwtBound = FALSE
    /\ stripsUndefined = FALSE
    /\ comments = {}
    /\ likes = {}
    /\ nextCid = 1
    /\ cres = NoCommentResponse
    /\ likeBound \in BOOLEAN

GetVideoComments ==
    \E u \in Requesters, videoId \in VideoParams, page \in PageParams,
       limit \in LimitParams :
        getVideoComments(u, videoId, page, limit)

AddComment ==
    \E u \in Requesters, videoId \in VideoParams, content \in Contents :
        addComment(u, videoId, content)

UpdateComment ==
    \E u \in Requesters, commentId \in CommentParams, content \in Contents :
        updateComment(u, commentId, content)

DeleteComment ==
    \E u \in Requesters, commentId \in CommentParams : deleteComment(u, commentId)

ToggleCommentLike ==
    \E u \in Requesters, commentId \in CommentParams : toggleCommentLike(u, commentId)

\* the endpoints that write comments
NextCommentWrites ==
    \/ AddComment
    \/ UpdateComment
    \/ DeleteComment

SpecCommentWrites == InitComment /\ [][NextCommentWrites]_vars

\* all comment endpoints, together with the like endpoint
NextComment ==
    \/ GetVideoComments
    \/ AddComment
    \/ UpdateComment
    \/ DeleteComment
    \/ ToggleCommentLike

SpecComment == InitComment /\ [][NextComment]_vars

----------------------------------------------------------------------------
(* Properties of the comment controller *)

StoredCommentIds == {c._id : c \in comments}

\* C1: a request to edit or delete a stored comment made by anyone but its
\* owner is answered 400 and leaves the comments collection as it was; a
\* comment is changed or removed only by a request of its owner on that
\* comment.
OwnershipCheckedBeforeWrite ==
    [][ /\ \A c \in comments :
             ( /\ cres'.op \in {"update", "delete"}
               /\ cres'.id = StringId(c._id.id)
               /\ c.owner # ObjectId(cres'.user) )
             => (cres'.status = 400 /\ comments' = comments)
        /\ \A c \in comments :
             c \notin comments'
             => ( /\ cres'.op \in {"update", "delete"}
                  /\ cres'.status = 200
                  /\ cres'.id = StringId(c._id.id)
                  /\ c.owner = ObjectId(cres'.user) )
      ]_vars

\* C1 witness: a delete by a user who is not the owner was refused and the
\* comment is still stored.
ForeignDeleteRefused ==
    /\ cres.op = "delete"
    /\ cres.status = 400
    /\ \E c \in comments : c._id.id = cres.id.id /\ c.owner # ObjectId(cres.user)

\* C7: addComment and updateComment without content answer 400, addComment
\* for a video that is not stored and updateComment for a comment that is
\* not stored answer 404 (400 when the content is missing too), all without
\* changing the comments collection; a successful addComment adds exactly
\* one comment, on the requested video, owned by the requester.
CommentPresenceChecks ==
    [][ /\ (cres'.op \in {"add", "update"} /\ cres'.content \in {Undefined, ""})
             => (cres'.status = 400 /\ comments' = comments)
        /\ ( /\ cres'.op = "add"
             /\ cres'.content \notin {Undefined, ""}
             /\ ObjectId(cres'.id.id) \notin Videos )
             => (cres'.status = 404 /\ comments' = comments)
        /\ ( /\ cres'.op = "update"
             /\ cres'.content \notin {Undefined, ""}
             /\ ObjectId(cres'.id.id) \notin StoredCommentIds )
             => (cres'.status = 404 /\ comments' = comments)
        /\ (cres'.op = "add" /\ cres'.status = 201)
             => \E c \in comments' \ comments :
                   /\ comments' = comments \cup {c}
                   /\ c._id \notin StoredCommentIds
                   /\ c.video = ObjectId(cres'.id.id)
                   /\ c.video \in Videos
                   /\ c.owner = ObjectId(cres'.user)
                   /\ c.content = cres'.content
        /\ (cres'.op = "add" /\ cres'.status # 201) => comments' = comments
      ]_vars

\* C7 witness: an update without content was refused while a comment is stored.
EmptyUpdateRefused ==
    /\ cres.op = "update"
    /\ cres.status = 400
    /\ cres.content = ""
    /\ ObjectId(cres.id.id) \in StoredCommentIds

\* the comments of a video, by the video's identifier
CommentsOfVideo(n) == {c \in comments : c.video.id = n}
LikesOfComment(c) == {l \in likes : l.comment.id = c._id.id}
NewerThan(c, S) == {d \in S : d.createdAt > c.createdAt}

\* C8: getVideoComments for a stored video answers 200 with the requested
\* page of that video's comments, newest first, each with the number of
\* likes on it and whether the requester is among the likers; for a video
\* that is not stored it answers 404.
ListingIsThePageOfTheVideo ==
    cres.op = "list" =>
        LET S == CommentsOfVideo(cres.id.id)
            page == IF cres.page = Undefined THEN 1 ELSE IF cres.page = "2" THEN 2 ELSE 1
            limit == IF cres.limit = Undefined THEN 10 ELSE IF cres.limit = "1" THEN 1 ELSE 2
            skipped == (page - 1) * limit
            rest == IF Cardinality(S) > skipped THEN Cardinality(S) - skipped ELSE 0
        IN IF ObjectId(cres.id.id) \notin Videos
             THEN cres.status = 404
             ELSE /\ cres.status = 200
                  /\ Len(cres.docs) = (IF rest < limit THEN rest ELSE limit)
                  /\ \A i \in DOMAIN cres.docs :
                       \E c \in S :
                          /\ cres.docs[i]._id = c._id
                          /\ cres.docs[i].content = c.content
                          /\ Cardinality(NewerThan(c, S)) = skipped + i - 1
                          /\ cres.docs[i].likesCount = Cardinality(LikesOfComment(c))
                          /\ cres.docs[i].isLiked =
                                (\E l \in LikesOfComment(c) : l.likedBy.id = cres.user)

\* C10: every stored like on a comment references a stored comment.
NoOrphanedLikes ==
    \A l \in likes : l.comment \in StoredCommentIds

----------------------------------------------------------------------------
(* Properties of the user controller *)

CarriesNoToken(r) ==
    /\ r.cookieAT = NotSent
    /\ r.cookieRT = NotSent
    /\ r.dataAT = NotSent
    /\ r.dataRT = NotSent

\* the token is validly signed and is the one stored for the user it names
IsStoredTokenOf(tok, store) ==
    /\ tok.kind = "refresh"
    /\ tok.uid \in 1..Len(store)
    /\ store[tok.uid].refreshToken = tok

\* C2: a refresh request whose token is absent, not validly signed, names no
\* stored user or is not the token stored for that user is answered 401,
\* carries no token, and leaves every stored refresh token as it was; no
\* such request gets past the checks.
RefreshRejectsStaleTokens ==
    [][ /\ (resp'.op = "refresh" /\ ~IsStoredTokenOf(resp'.token, users))
             => ( /\ resp'.status = 401
                  /\ CarriesNoToken(resp')
                  /\ users' = users )
        /\ \A r \in Slots :
             (slot[r].pc = "idle" /\ slot'[r].pc = "issuing")
             => (IsStoredTokenOf(slot'[r].token, users) /\ users' = users)
      ]_vars

\* C2 witness: a validly signed token of an existing user that is no longer
\* the stored one was refused.
StaleTokenRefused ==
    /\ resp.op = "refresh"
    /\ resp.status = 401
    /\ resp.token.kind = "refresh"
    /\ resp.token.uid \in 1..Len(users)
    /\ resp.token \in issued
    /\ users[resp.token.uid].refreshToken # resp.token
    /\ resp.message = "Refresh token is expired or used"

\* C3: a refresh request presenting the stored token is answered 200, and
\* the refresh token in the cookie and in the response data is the newly
\* stored one.
RefreshHandsOutStoredToken ==
    resp.op = "refresh" =>
        /\ resp.status = 401 => ~IsStoredTokenOf(resp.token, users)
        /\ resp.status = 200 =>
              /\ users[resp.uid].refreshToken # resp.token
              /\ resp.cookieRT = users[resp.uid].refreshToken
              /\ resp.dataRT = users[resp.uid].refreshToken

\* C4: logout answers 200, clears both cookies and leaves the user without
\* a stored refresh token.
LogoutClearsStoredToken ==
    resp.op = "logout" =>
        /\ resp.status = 200
        /\ resp.cookieAT = ClearedCookie
        /\ resp.cookieRT = ClearedCookie
        /\ users[resp.uid].refreshToken = UnsetToken

\* C5: no two stored users have the same username or the same email.
NoDuplicateAccounts ==
    \A i, j \in 1..Len(users) :
        i # j => ( /\ users[i].username # users[j].username
                   /\ users[i].email # users[j].email )

\* C6: login answers 400 without username and email, 404 when no user
\* matches, 401 on a wrong password, each time without a token and without
\* touching the store; otherwise it answers 200, stores a refresh token not
\* seen before for the matched user only, and the cookies equal the tokens
\* of the response data, the refresh token being the stored one.
LoginIssuesTokensOnlyWhenAuthenticated ==
    [][ resp'.op = "login" =>
          LET q == resp'.req
              m == {i \in 1..Len(users) :
                       users[i].username = q.username \/ users[i].email = q.email}
              rejected(status) ==
                  /\ resp'.status = status
                  /\ CarriesNoToken(resp')
                  /\ users' = users
          IN IF q.username \in {Undefined, ""} /\ q.email \in {Undefined, ""}
               THEN rejected(400)
             ELSE IF m = {}
               THEN rejected(404)
             ELSE IF \A i \in m : users[i].password # q.password
               THEN rejected(401)
             ELSE
               /\ resp'.status = 200
               /\ resp'.uid \in m
               /\ users[resp'.uid].password = q.password
               /\ resp'.cookieRT.kind = "refresh"
               /\ resp'.cookieRT.uid = resp'.uid
               /\ resp'.cookieRT \notin issued
               /\ resp'.cookieRT # users[resp'.uid].refreshToken
               /\ users' = [users EXCEPT ![resp'.uid].refreshToken = resp'.cookieRT]
               /\ resp'.dataRT = resp'.cookieRT
               /\ resp'.cookieAT.kind = "access"
               /\ resp'.cookieAT.uid = resp'.uid
               /\ resp'.dataAT = resp'.cookieAT
      ]_vars

\* C6 witness: a login succeeded and the cookie holds the stored refresh token.
LoginSucceeded ==
    /\ resp.op = "login"
    /\ resp.status = 200
    /\ resp.cookieRT = users[resp.uid].refreshToken
    /\ resp.cookieRT.kind = "refresh"

\* C9: no refresh token is exchanged successfully more than once, and a
\* request presenting a token that was already exchanged is answered 401
\* "Refresh token is expired or used".
RefreshTokenIsSingleUse ==
    /\ \A i, j \in DOMAIN exchanges : i # j => exchanges[i] # exchanges[j]
    /\ ( /\ resp.op = "refresh"
         /\ resp.status # 200
         /\ \E i \in DOMAIN exchanges : exchanges[i] = resp.token )
       => ( /\ resp.status = 401
            /\ resp.message = "Refresh token is expired or used" )

====
